---- MODULE Spec2Model ----
(***************************************************************************)
(* Model of main2.py: two browser sessions (MEXC, LBank) are opened, then  *)
(* an endless loop reads four order-book prices, picks one of the two      *)
(* cross-venue directions, and prints an alert when the percentage         *)
(* difference of the picked pair exceeds 1.5 and the alert text differs    *)
(* from the last one printed.                                              *)
(*                                                                         *)
(* Prices are exact rationals in hundredths (397 stands for 3.97); the     *)
(* program's binary floating point rounding is not modelled.  The texts    *)
(* the pages show are positive prices, so a price variable is 0 at the     *)
(* if/else exactly when its read block obtained no value in the tick.      *)
(* print and jdatetime.datetime.now() are taken not to raise.              *)
(***************************************************************************)
EXTENDS Integers, Sequences, FiniteSets, TLC

\* ------------------------------------------------------------------ bounds

\* Largest number of readable leading rows in a scanned stream, short of a
\* stream in which every one of the NumReads reads succeeds.
MaxRows == 1

\* Number of distinct timestamps jdatetime.datetime.now() can return.
MaxTime == 2

\* ------------------------------------------------------- program constants

\* range(1,20): the scans make at most 19 reads.
NumReads == 19

\* The threshold of "diff_percent > 1.5", in tenths of a percent.
ThresholdTenths == 15

\* --------------------------------------------------------------- raw reads

\* Element texts that float() accepts.
NumericTexts == {"3.97", "4.03", "4.10"}

\* find_element raised (no such element, dead session).
Missing == "<missing>"

\* An element text float() rejects with ValueError.
Garbage == "--"

Failures == {Missing, Garbage}

\* float(text) for the numeric texts, in hundredths.
ParseFloat(t) ==
    CASE t = "3.97" -> 397
      [] t = "4.03" -> 403
      [] t = "4.10" -> 410

\* Does reading this outcome raise inside the try block?
Raises(t) == t \notin NumericTexts

\* The outcomes of the successive reads of one scan: k leading numeric reads,
\* the last of them showing v and the earlier ones u, then outcome f.
Stream(k, u, v, f) ==
    [i \in 1..NumReads |-> IF i < k THEN u ELSE IF i = k THEN v ELSE f]

ScanLens == (0..MaxRows) \cup {NumReads}

\* The streams a scan block is run against.
Streams ==
    {Stream(k, u, v, f) :
        k \in ScanLens, u \in NumericTexts, v \in NumericTexts, f \in Failures}

Abs(x) == IF x < 0 THEN -x ELSE x

\* for i in range(1,20): value = float(find_element(...).text), inside one
\* try/except: the first raising read leaves the loop with the value so far.
RECURSIVE ScanFrom(_, _, _)
ScanFrom(stream, i, acc) ==
    IF i > NumReads
    THEN [value |-> acc, reads |-> NumReads, caught |-> FALSE]
    ELSE IF Raises(stream[i])
         THEN [value |-> acc, reads |-> i, caught |-> TRUE]
         ELSE ScanFrom(stream, i + 1, ParseFloat(stream[i]))

\* Mutant of Scan: the sentinel assigned at the top of the tick is -1.
ScanSentinelMinusOne(stream) == ScanFrom(stream, 1, -1)

\* A scan block starting from the sentinel 0 assigned at the top of the tick.
Scan(stream) == ScanFrom(stream, 1, 0)

\* The single read of the MEXC buy price, in its own try/except: a raising
\* read leaves the variable as it was.
ReadOnce(t, prior) ==
    IF Raises(t)
    THEN [value |-> prior, reads |-> 1, caught |-> TRUE]
    ELSE [value |-> ParseFloat(t), reads |-> 1, caught |-> FALSE]

\* ------------------------------------------------------------------- texts

\* A string the program builds, by its parts. template names the fixed
\* wording; stamp is the trailing "Time: ..." part, 0 when the string has none.
Text(template, mexc_color, mexc, lbank_color, lbank, abs_diff, pct, stamp) ==
    [template |-> template, mexc_color |-> mexc_color, mexc |-> mexc,
     lbank_color |-> lbank_color, lbank |-> lbank, abs_diff |-> abs_diff,
     pct |-> pct, stamp |-> stamp]

\* old_text = ""
EmptyText == Text("", "", 0, "", 0, 0, 0, 0)

\* str(e) of the ZeroDivisionError, as print(e) writes it.
ZeroDivisionText == Text("float division by zero", "", 0, "", 0, 0, 0, 0)

\* Quotient rounded to the nearest integer.
RoundDiv(n, d) == (2 * n + d) \div (2 * d)

\* {diff_absolute:.5f}: the difference in units of 0.00001.
Fmt5(diff_absolute) == diff_absolute * 1000

\* {diff_percent:.2f} of diff_absolute / ((data1 + data2) / 2) * 100, in
\* hundredths of a percent.
Fmt2(diff_absolute, data1, data2) ==
    RoundDiv(20000 * diff_absolute, data1 + data2)

\* Mutant of OverThreshold: the percentage taken relative to data1 instead
\* of the mean of data1 and data2.
OverThresholdRelativeToFirst(diff_absolute, data1, data2) ==
    1000 * diff_absolute > ThresholdTenths * data1

\* Mutant of OverThreshold: the comparison written as >=.
OverThresholdInclusive(diff_absolute, data1, data2) ==
    2000 * diff_absolute >= ThresholdTenths * (data1 + data2)

\* diff_percent > 1.5, for data1 + data2 > 0.
OverThreshold(diff_absolute, data1, data2) ==
    2000 * diff_absolute > ThresholdTenths * (data1 + data2)

\* new_text of the first branch: MEXC price green, LBank price red.
NewText1(data1, data2) ==
    Text("DEBT_USDT", "GREEN", data1, "RED", data2,
         Fmt5(Abs(data1 - data2)), Fmt2(Abs(data1 - data2), data1, data2), 0)

\* new_text of the else branch: MEXC price red, LBank price green.
NewText2(data1, data2) ==
    Text("DEBT_USDT", "RED", data1, "GREEN", data2,
         Fmt5(Abs(data1 - data2)), Fmt2(Abs(data1 - data2), data1, data2), 0)

\* new_text + f"Time: {str(jdatetime.datetime.now())}"
WithTime(new_text, t) == [new_text EXCEPT !.stamp = t]

Times == 1..MaxTime

\* ------------------------------------------------------- spread and gate

\* Mutant of SelectDirection: the comparison written as <=.
SelectDirectionTieFirst(mex_buy_and_lbnak_sell, lbank_buy_and_mex_sell) ==
    IF mex_buy_and_lbnak_sell <= lbank_buy_and_mex_sell THEN 1 ELSE 2

\* Mutant of SelectDirection: the branch of the larger difference is taken.
SelectDirectionLarger(mex_buy_and_lbnak_sell, lbank_buy_and_mex_sell) ==
    IF mex_buy_and_lbnak_sell > lbank_buy_and_mex_sell THEN 1 ELSE 2

\* if mex_buy_and_lbnak_sell < lbank_buy_and_mex_sell: first branch (1),
\* else: second branch (2).
SelectDirection(mex_buy_and_lbnak_sell, lbank_buy_and_mex_sell) ==
    IF mex_buy_and_lbnak_sell < lbank_buy_and_mex_sell THEN 1 ELSE 2

NewText(dir, data1, data2) ==
    IF dir = 1 THEN NewText1(data1, data2) ELSE NewText2(data1, data2)

\* Mutant of Gate: the printed line, timestamp included, is what is stored.
GateStampedKey(old, new_text, t) ==
    IF old # new_text
    THEN [out |-> <<WithTime(new_text, t)>>,
          old_text |-> WithTime(new_text, t), cand |-> new_text]
    ELSE [out |-> <<>>, old_text |-> old, cand |-> new_text]

\* Mutant of Gate: old_text is not updated after printing.
GateNoUpdate(old, new_text, t) ==
    IF old # new_text
    THEN [out |-> <<WithTime(new_text, t)>>, old_text |-> old,
          cand |-> new_text]
    ELSE [out |-> <<>>, old_text |-> old, cand |-> new_text]

\* Mutant of Gate: the alert is printed without comparing it with old_text.
GateNoDedup(old, new_text, t) ==
    [out |-> <<WithTime(new_text, t)>>, old_text |-> new_text,
     cand |-> new_text]

\* if old_text != new_text: print(new_text + time); old_text = new_text
\* cand records the new_text that was built, for the history variables.
Gate(old, new_text, t) ==
    IF old # new_text
    THEN [out |-> <<WithTime(new_text, t)>>, old_text |-> new_text,
          cand |-> new_text]
    ELSE [out |-> <<>>, old_text |-> old, cand |-> new_text]

\* Mutant of TryBranch: a pair at or below the threshold clears old_text.
TryBranchResetsOnDrop(dir, data1, data2, old, t) ==
    IF data1 + data2 = 0
    THEN [out |-> <<ZeroDivisionText>>, old_text |-> old, cand |-> EmptyText]
    ELSE IF OverThreshold(Abs(data1 - data2), data1, data2)
         THEN Gate(old, NewText(dir, data1, data2), t)
         ELSE [out |-> <<>>, old_text |-> EmptyText, cand |-> EmptyText]

\* Mutant of TryBranch: the handler of the exception clears old_text.
TryBranchResetsOnError(dir, data1, data2, old, t) ==
    IF data1 + data2 = 0
    THEN [out |-> <<ZeroDivisionText>>, old_text |-> EmptyText,
          cand |-> EmptyText]
    ELSE IF OverThreshold(Abs(data1 - data2), data1, data2)
         THEN Gate(old, NewText(dir, data1, data2), t)
         ELSE [out |-> <<>>, old_text |-> old, cand |-> EmptyText]

\* Mutant of TryBranch: the handler passes without printing the exception.
TryBranchSilent(dir, data1, data2, old, t) ==
    IF data1 + data2 = 0
    THEN [out |-> <<>>, old_text |-> old, cand |-> EmptyText]
    ELSE IF OverThreshold(Abs(data1 - data2), data1, data2)
         THEN Gate(old, NewText(dir, data1, data2), t)
         ELSE [out |-> <<>>, old_text |-> old, cand |-> EmptyText]

\* The try/except of one branch: the division raises ZeroDivisionError when
\* data1 + data2 is 0, and the handler prints the exception.
TryBranch(dir, data1, data2, old, t) ==
    IF data1 + data2 = 0
    THEN [out |-> <<ZeroDivisionText>>, old_text |-> old, cand |-> EmptyText]
    ELSE IF OverThreshold(Abs(data1 - data2), data1, data2)
         THEN Gate(old, NewText(dir, data1, data2), t)
         ELSE [out |-> <<>>, old_text |-> old, cand |-> EmptyText]

\* ------------------------------------------------------------------- state

VARIABLES
    pc,                     \* the block the program is about to run
    driver1, driver2,       \* browser sessions: "none", "open", "quit"
    data_last_sell_mexc, data_last_buy_mexc,
    data_last_sell_lbank, data_last_buy_lbank,
    old_text,
    out,                    \* the lines printed by the latest run of the
                            \* if/else over the two directions
    reads,                  \* find_element calls made by the latest read block
    caught,                 \* did the latest read block end in its except?
    read_slots,             \* the read blocks run so far in this tick
    interrupted,            \* has KeyboardInterrupt been raised in the try?
    branch,                 \* branch of the if/else taken in this tick:
                            \* 1, 2, or 0 before the if/else is reached
    last_cand,              \* new_text built by the latest tick that reached
                            \* the if/else, EmptyText if it built none
    last_kind,              \* what that tick did with it: "emitted",
                            \* "suppressed", or "none" if it built none
    prev_kind,              \* the same, of the tick before that one
    last_printed            \* the alert most recently printed, without its
                            \* timestamp; EmptyText before the first alert

data == <<data_last_sell_mexc, data_last_buy_mexc,
          data_last_sell_lbank, data_last_buy_lbank>>
drivers == <<driver1, driver2>>
hist == <<last_cand, last_kind, prev_kind, last_printed>>
vars == <<pc, drivers, data, old_text, out, reads, caught, read_slots,
          interrupted, branch, hist>>

\* The blocks inside try ... finally.
TryPcs == {"enter", "reset", "sell_mexc", "buy_mexc", "sell_lbank", "buy_lbank",
           "evaluate"}

\* The blocks of the while loop.
LoopPcs == TryPcs \ {"enter"}

Init ==
    /\ pc = "acquire1"
    /\ driver1 = "none" /\ driver2 = "none"
    /\ data_last_sell_mexc = 0 /\ data_last_buy_mexc = 0
    /\ data_last_sell_lbank = 0 /\ data_last_buy_lbank = 0
    /\ old_text = EmptyText
    /\ out = <<>>
    /\ reads = 0 /\ caught = FALSE /\ read_slots = {}
    /\ interrupted = FALSE
    /\ branch = 0
    /\ last_cand = EmptyText /\ last_kind = "none" /\ prev_kind = "none"
    /\ last_printed = EmptyText

loop_vars == <<data, old_text, out, reads, caught, read_slots,
               interrupted, branch, hist>>

\* The process has ended: its variables are gone (the model returns them to
\* their initial values); only the browser sessions outlive it.
ProcessEnds ==
    /\ pc' = "exit"
    /\ data_last_sell_mexc' = 0 /\ data_last_buy_mexc' = 0
    /\ data_last_sell_lbank' = 0 /\ data_last_buy_lbank' = 0
    /\ old_text' = EmptyText
    /\ out' = <<>>
    /\ reads' = 0 /\ caught' = FALSE /\ read_slots' = {}
    /\ branch' = 0
    /\ last_cand' = EmptyText /\ last_kind' = "none" /\ prev_kind' = "none"
    /\ last_printed' = EmptyText
    /\ UNCHANGED interrupted

\* An exception before the try statement ends the process with no handler.
Crash == ProcessEnds /\ UNCHANGED drivers

\* driver1 = webdriver.Chrome(options=options)
Acquire1 ==
    /\ pc = "acquire1"
    /\ \/ pc' = "acquire2" /\ driver1' = "open"
          /\ UNCHANGED <<driver2, loop_vars>>
       \/ Crash

\* driver2 = webdriver.Chrome(options=options)
Acquire2 ==
    /\ pc = "acquire2"
    /\ \/ pc' = "get1" /\ driver2' = "open"
          /\ UNCHANGED <<driver1, loop_vars>>
       \/ Crash

\* driver1.get(url1)
Get1 ==
    /\ pc = "get1"
    /\ \/ pc' = "get2" /\ UNCHANGED <<drivers, loop_vars>>
       \/ Crash

\* driver2.get(url2)
Get2 ==
    /\ pc = "get2"
    /\ \/ pc' = "sleep" /\ UNCHANGED <<drivers, loop_vars>>
       \/ Crash

\* time.sleep(2)
Sleep ==
    /\ pc = "sleep"
    /\ \/ pc' = "enter" /\ UNCHANGED <<drivers, loop_vars>>
       \/ Crash

\* try: old_text = ""
Enter ==
    /\ pc = "enter"
    /\ pc' = "reset"
    /\ old_text' = EmptyText
    /\ UNCHANGED <<drivers, data, out, reads, caught, read_slots,
                   interrupted, branch, hist>>

\* Mutant of Reset: the prices are not set to 0 at the top of the loop body.
ResetKeeps ==
    /\ pc = "reset"
    /\ pc' = "sell_mexc"
    /\ out' = <<>> /\ reads' = 0 /\ caught' = FALSE /\ read_slots' = {}
    /\ branch' = 0
    /\ UNCHANGED <<drivers, data, old_text, interrupted, hist>>

\* Top of the loop body: the four prices are set to 0.
Reset ==
    /\ pc = "reset"
    /\ pc' = "sell_mexc"
    /\ data_last_sell_mexc' = 0 /\ data_last_buy_mexc' = 0
    /\ data_last_sell_lbank' = 0 /\ data_last_buy_lbank' = 0
    /\ out' = <<>> /\ reads' = 0 /\ caught' = FALSE /\ read_slots' = {}
    /\ branch' = 0
    /\ UNCHANGED <<drivers, old_text, interrupted, hist>>

\* Mutant of NextBlock: an exception of a read block is not caught there and
\* reaches the finally clause.
NextBlockPropagates(block, raised) ==
    IF raised THEN "quit1"
    ELSE CASE block = "sell_mexc" -> "buy_mexc"
           [] block = "buy_mexc" -> "sell_lbank"
           [] block = "sell_lbank" -> "buy_lbank"
           [] block = "buy_lbank" -> "evaluate"

\* Mutant of NextBlock: one try around the four reads, so that an exception
\* in one read skips the reads after it.
NextBlockSkipsRest(block, raised) ==
    IF raised THEN "evaluate"
    ELSE CASE block = "sell_mexc" -> "buy_mexc"
           [] block = "buy_mexc" -> "sell_lbank"
           [] block = "sell_lbank" -> "buy_lbank"
           [] block = "buy_lbank" -> "evaluate"

\* Where control goes after a read block; raised tells whether the block's
\* try ended in its except clause (which only passes).
NextBlock(block, raised) ==
    CASE block = "sell_mexc" -> "buy_mexc"
      [] block = "buy_mexc" -> "sell_lbank"
      [] block = "sell_lbank" -> "buy_lbank"
      [] block = "buy_lbank" -> "evaluate"

\* What every read block leaves alone and records.
ReadFrame(block, r) ==
    /\ pc' = NextBlock(block, r.caught)
    /\ reads' = r.reads /\ caught' = r.caught
    /\ read_slots' = read_slots \cup {block}
    /\ UNCHANGED <<drivers, old_text, out, interrupted, branch, hist>>

\* Scan of the MEXC sell rows div[1] .. div[19].
ReadSellMexc ==
    /\ pc = "sell_mexc"
    /\ \E stream \in Streams :
          LET r == Scan(stream) IN
          /\ data_last_sell_mexc' = r.value
          /\ ReadFrame("sell_mexc", r)
    /\ UNCHANGED <<data_last_buy_mexc, data_last_sell_lbank,
                   data_last_buy_lbank>>

\* Single read of the first MEXC buy row.
ReadBuyMexc ==
    /\ pc = "buy_mexc"
    /\ \E t \in NumericTexts \cup Failures :
          LET r == ReadOnce(t, data_last_buy_mexc) IN
          /\ data_last_buy_mexc' = r.value
          /\ ReadFrame("buy_mexc", r)
    /\ UNCHANGED <<data_last_sell_mexc, data_last_sell_lbank,
                   data_last_buy_lbank>>

\* Scan of the LBank sell rows li[1] .. li[19].
ReadSellLbank ==
    /\ pc = "sell_lbank"
    /\ \E stream \in Streams :
          LET r == Scan(stream) IN
          /\ data_last_sell_lbank' = r.value
          /\ ReadFrame("sell_lbank", r)
    /\ UNCHANGED <<data_last_sell_mexc, data_last_buy_mexc,
                   data_last_buy_lbank>>

\* The first LBank buy row li[1], read in each of the 19 iterations.
ReadBuyLbank ==
    /\ pc = "buy_lbank"
    /\ \E stream \in Streams :
          LET r == Scan(stream) IN
          /\ data_last_buy_lbank' = r.value
          /\ ReadFrame("buy_lbank", r)
    /\ UNCHANGED <<data_last_sell_mexc, data_last_buy_mexc,
                   data_last_sell_lbank>>

\* The two absolute differences, the if/else over them and the branch taken.
Evaluate ==
    /\ pc = "evaluate"
    /\ \E t \in Times :
          LET mex_buy_and_lbnak_sell ==
                  Abs(data_last_buy_mexc - data_last_sell_lbank)
              lbank_buy_and_mex_sell ==
                  Abs(data_last_sell_mexc - data_last_buy_lbank)
              dir == SelectDirection(mex_buy_and_lbnak_sell,
                                     lbank_buy_and_mex_sell)
              data1 == IF dir = 1 THEN data_last_buy_mexc
                                  ELSE data_last_sell_mexc
              data2 == IF dir = 1 THEN data_last_sell_lbank
                                  ELSE data_last_buy_lbank
              r == TryBranch(dir, data1, data2, old_text, t)
          IN  /\ out' = r.out
              /\ old_text' = r.old_text
              /\ branch' = dir
              /\ last_cand' = r.cand
              /\ last_kind' = IF r.cand = EmptyText THEN "none"
                               ELSE IF r.out = <<>> THEN "suppressed"
                               ELSE "emitted"
              /\ prev_kind' = last_kind
              /\ last_printed' =
                    IF r.out # <<>> /\ r.out[1].template = "DEBT_USDT"
                    THEN [r.out[1] EXCEPT !.stamp = 0]
                    ELSE last_printed
    /\ pc' = "reset"
    /\ UNCHANGED <<drivers, data, reads, caught, read_slots, interrupted>>

\* KeyboardInterrupt (not an Exception, so no except clause of the loop
\* catches it) inside the try statement: control goes to finally.
Interrupt ==
    /\ pc \in TryPcs
    /\ pc' = "quit1"
    /\ interrupted' = TRUE
    /\ UNCHANGED <<drivers, data, old_text, out, reads, caught, read_slots,
                   branch, hist>>

\* finally: driver1.quit(); an exception it raises leaves the finally block.
Quit1 ==
    /\ pc = "quit1"
    /\ \/ pc' = "quit2" /\ driver1' = "quit"
          /\ UNCHANGED <<driver2, loop_vars>>
       \/ ProcessEnds /\ UNCHANGED drivers

\* driver2.quit()
Quit2 ==
    /\ pc = "quit2"
    /\ ProcessEnds
    /\ UNCHANGED driver1
    /\ \/ driver2' = "quit"
       \/ UNCHANGED driver2

Next ==
    \/ Acquire1 \/ Acquire2 \/ Get1 \/ Get2 \/ Sleep \/ Enter
    \/ Reset
    \/ ReadSellMexc \/ ReadBuyMexc \/ ReadSellLbank \/ ReadBuyLbank
    \/ Evaluate
    \/ Interrupt
    \/ Quit1 \/ Quit2

Spec == Init /\ [][Next]_vars

\* ------------------------------------------------------ vocabulary of claims

\* The step in which the if/else over the two directions runs.
EvalStep == pc = "evaluate" /\ pc' = "reset"

\* A tick has run its if/else and the next tick has not yet begun.
Evaluated == pc = "reset" /\ branch # 0

IsAlert(line) == line.template = "DEBT_USDT"

AlertCount(o) == Cardinality({i \in 1..Len(o) : IsAlert(o[i])})

\* The two prices of the branch taken.
Sel1 == IF branch = 1 THEN data_last_buy_mexc ELSE data_last_sell_mexc
Sel2 == IF branch = 1 THEN data_last_sell_lbank ELSE data_last_buy_lbank

\* |a_buy - b_sell| and |a_sell - b_buy|
DiffDir1 == Abs(data_last_buy_mexc - data_last_sell_lbank)
DiffDir2 == Abs(data_last_sell_mexc - data_last_buy_lbank)

\* pct_diff of the pair (p1, p2) is defined and at most 1.5, resp. above 1.5.
PctAtMost(p1, p2) ==
    p1 + p2 > 0 /\ 2000 * Abs(p1 - p2) <= ThresholdTenths * (p1 + p2)
PctAbove(p1, p2) ==
    p1 + p2 > 0 /\ 2000 * Abs(p1 - p2) > ThresholdTenths * (p1 + p2)

\* ---------------------------------------------------------------------- C1

\* C1 (as claimed): in a tick in which one of the two prices of the branch
\* taken is 0, no alert is printed and old_text is unchanged.
C1_ZeroPriceNoAlert ==
    [][(EvalStep /\ (Sel1' = 0 \/ Sel2' = 0))
         => (AlertCount(out') = 0 /\ old_text' = old_text)]_vars

\* ---------------------------------------------------------------------- C2

\* C2: when the new_text built in a tick equals the new_text built in the
\* tick before it, the later tick prints nothing and leaves old_text, which
\* is that text and carries no timestamp, unchanged; so over the two ticks
\* at most the first one printed the alert.
C2_DuplicateSuppressed ==
    [][(EvalStep /\ last_cand # EmptyText /\ last_cand' = last_cand)
         => /\ out' = <<>>
            /\ old_text' = old_text
            /\ old_text = last_cand
            /\ old_text.stamp = 0
            /\ last_kind' = "suppressed"]_vars

\* C2 witness: a tick printed an alert and the next tick, building the same
\* text, printed nothing.
C2_Witness ==
    /\ Evaluated
    /\ prev_kind = "emitted" /\ last_kind = "suppressed"
    /\ out = <<>>
    /\ old_text = last_cand /\ last_cand # EmptyText
    /\ Sel1 > 0 /\ Sel2 > 0

\* ---------------------------------------------------------------------- C3

\* C3: a tick that builds a new_text different from old_text prints exactly
\* one line, that text with a timestamp, and old_text becomes that text;
\* in particular when the tick before it suppressed a duplicate.
C3_Rearms ==
    [][(EvalStep /\ last_cand' # EmptyText /\ last_cand' # old_text)
         => /\ Len(out') = 1
            /\ IsAlert(out'[1])
            /\ out'[1].stamp \in Times
            /\ [out'[1] EXCEPT !.stamp = 0] = last_cand'
            /\ out'[1].mexc = Sel1' /\ out'[1].lbank = Sel2'
            /\ old_text' = last_cand'
            /\ last_kind' = "emitted"]_vars

\* C3 witness: a duplicate was suppressed and the next tick, with other
\* prices, printed its alert and stored its text.
C3_Witness ==
    /\ Evaluated
    /\ prev_kind = "suppressed" /\ last_kind = "emitted"
    /\ Len(out) = 1 /\ IsAlert(out[1])
    /\ old_text = last_cand /\ old_text = [out[1] EXCEPT !.stamp = 0]
    /\ Sel1 > 0 /\ Sel2 > 0

\* ---------------------------------------------------------------------- C4

\* C4: a tick whose taken pair has a percentage difference of at most 1.5
\* prints no alert and leaves old_text unchanged.
C4_AtMostThresholdDropped ==
    [][(EvalStep /\ PctAtMost(Sel1', Sel2'))
         => (out' = <<>> /\ old_text' = old_text)]_vars

\* C4 witness: with an alert text stored, a pair at exactly 1.5 percent
\* (3.97 and 4.03) was dropped.
C4_Witness ==
    /\ Evaluated
    /\ old_text # EmptyText
    /\ Sel1 # Sel2
    /\ 2000 * Abs(Sel1 - Sel2) = ThresholdTenths * (Sel1 + Sel2)
    /\ out = <<>>

\* ---------------------------------------------------------------------- C5

\* C5 (as claimed): the branch of the strictly smaller difference is taken,
\* and the first branch when the differences are equal.
C5_TieToDirection1 ==
    Evaluated =>
        branch = (IF DiffDir1 < DiffDir2 THEN 1
                  ELSE IF DiffDir2 < DiffDir1 THEN 2 ELSE 1)

\* C5 (amended): the branch of the strictly smaller difference is taken, and
\* the second branch (sell on MEXC, buy on LBank) when the differences are
\* equal; an alert printed in the tick shows that branch's colours and prices.
C5_TieToDirection2 ==
    Evaluated =>
        /\ DiffDir1 < DiffDir2 => branch = 1
        /\ DiffDir2 < DiffDir1 => branch = 2
        /\ DiffDir1 = DiffDir2 => branch = 2
        /\ \A i \in 1..Len(out) : IsAlert(out[i]) =>
             IF DiffDir1 < DiffDir2
             THEN /\ out[i].mexc_color = "GREEN" /\ out[i].lbank_color = "RED"
                  /\ out[i].mexc = data_last_buy_mexc
                  /\ out[i].lbank = data_last_sell_lbank
             ELSE /\ out[i].mexc_color = "RED" /\ out[i].lbank_color = "GREEN"
                  /\ out[i].mexc = data_last_sell_mexc
                  /\ out[i].lbank = data_last_buy_lbank

\* C5 witness: equal nonzero differences with four valid prices, and the
\* alert of the second branch printed.
C5_Witness ==
    /\ Evaluated
    /\ DiffDir1 = DiffDir2 /\ DiffDir1 > 0
    /\ data_last_buy_mexc > 0 /\ data_last_sell_lbank > 0
    /\ data_last_sell_mexc > 0 /\ data_last_buy_lbank > 0
    /\ branch = 2
    /\ Len(out) = 1 /\ IsAlert(out[1]) /\ out[1].mexc_color = "RED"

\* ---------------------------------------------------------------------- C6

\* C6 (as claimed): once both sessions have been acquired, the process ends
\* only with both of them released.
C6_BothReleasedAtExit ==
    (pc = "exit" /\ driver1 # "none" /\ driver2 # "none")
        => (driver1 = "quit" /\ driver2 = "quit")

\* ---------------------------------------------------------------------- C7

ReadBlocks == {"sell_mexc", "buy_mexc", "sell_lbank", "buy_lbank"}

\* The order of the blocks of the loop body, as the source lists them.
LoopSucc(p) ==
    CASE p = "reset" -> "sell_mexc"
      [] p = "sell_mexc" -> "buy_mexc"
      [] p = "buy_mexc" -> "sell_lbank"
      [] p = "sell_lbank" -> "buy_lbank"
      [] p = "buy_lbank" -> "evaluate"
      [] p = "evaluate" -> "reset"

\* C7: every step taken inside the loop goes on to the next block of the
\* loop, whatever reads failed, and from the last block back to the top of
\* the loop; the only step that leaves the loop is the interruption.
C7_FailedReadsStayInLoop ==
    [][(pc \in LoopPcs)
         => \/ pc' = LoopSucc(pc)
            \/ pc' = "quit1" /\ ~interrupted /\ interrupted']_vars

\* C7 witness: a tick in which all four reads failed has run through to the
\* top of the loop, uninterrupted.
C7_Witness ==
    /\ Evaluated
    /\ caught
    /\ data_last_sell_mexc = 0 /\ data_last_buy_mexc = 0
    /\ data_last_sell_lbank = 0 /\ data_last_buy_lbank = 0
    /\ read_slots = ReadBlocks
    /\ ~interrupted

\* ---------------------------------------------------------------------- C8

\* C8 (as claimed): in a tick in which both prices of the branch taken are
\* 0, nothing at all is printed and old_text is unchanged.
C8_BothZeroSilent ==
    [][(EvalStep /\ Sel1' = 0 /\ Sel2' = 0)
         => (out' = <<>> /\ old_text' = old_text)]_vars

\* ---------------------------------------------------------------------- C9

\* The price variable a read block assigns.
SlotValue(block) ==
    CASE block = "sell_mexc" -> data_last_sell_mexc
      [] block = "buy_mexc" -> data_last_buy_mexc
      [] block = "sell_lbank" -> data_last_sell_lbank
      [] block = "buy_lbank" -> data_last_buy_lbank

\* C9: a read block, failing or not, is followed by the next read block and
\* changes no price but its own, so the if/else is reached only with all
\* four blocks run; and an alert shows the prices the blocks left.
C9_ReadIsolation ==
    [][/\ (pc \in ReadBlocks /\ pc' \notin {pc, "quit1"})
            => /\ pc' = LoopSucc(pc)
               /\ read_slots' = read_slots \cup {pc}
               /\ \A b \in ReadBlocks \ {pc} : SlotValue(b)' = SlotValue(b)
       /\ (pc # "evaluate" /\ pc' = "evaluate") => read_slots' = ReadBlocks
       /\ EvalStep
            => /\ \A b \in ReadBlocks : SlotValue(b)' = SlotValue(b)
               /\ \A i \in 1..Len(out') : IsAlert(out'[i]) =>
                    out'[i].mexc = Sel1' /\ out'[i].lbank = Sel2']_vars

\* C9 witness: the MEXC sell scan failed at its first read, the other three
\* blocks were still run, and the alert shows the MEXC buy and LBank sell
\* prices they read.
C9_Witness ==
    /\ Evaluated
    /\ read_slots = ReadBlocks
    /\ data_last_sell_mexc = 0
    /\ data_last_buy_mexc > 0 /\ data_last_sell_lbank > 0
    /\ data_last_buy_lbank > 0
    /\ branch = 1
    /\ Len(out) = 1 /\ IsAlert(out[1])
    /\ out[1].mexc = data_last_buy_mexc /\ out[1].lbank = data_last_sell_lbank

\* --------------------------------------------------------------------- C10

\* C10: a tick prints at most one line; when the pair of the smaller
\* difference (the second pair when the differences are equal) has a
\* percentage difference of at most 1.5, no alert is printed, whatever the
\* other pair's percentage; and a printed alert is that pair's.
C10_OnlySelectedEvaluated ==
    [][EvalStep
         => /\ Len(out') <= 1
            /\ (DiffDir1 < DiffDir2
                  /\ PctAtMost(data_last_buy_mexc, data_last_sell_lbank))
                 => AlertCount(out') = 0
            /\ (DiffDir2 <= DiffDir1
                  /\ PctAtMost(data_last_sell_mexc, data_last_buy_lbank))
                 => AlertCount(out') = 0
            /\ \A i \in 1..Len(out') : IsAlert(out'[i]) =>
                 (out'[i].mexc_color = "GREEN" <=> DiffDir1 < DiffDir2)]_vars

\* C10 witness: four valid prices, the second pair equal (0 percent), the
\* first pair above 1.5 percent, and nothing printed.
C10_Witness ==
    /\ Evaluated
    /\ data_last_buy_mexc > 0 /\ data_last_sell_lbank > 0
    /\ data_last_sell_mexc > 0 /\ data_last_buy_lbank > 0
    /\ DiffDir2 < DiffDir1
    /\ PctAtMost(data_last_sell_mexc, data_last_buy_lbank)
    /\ PctAbove(data_last_buy_mexc, data_last_sell_lbank)
    /\ out = <<>>

\* --------------------------------------------------------------------- C11

\* C11: in the step that runs the if/else, old_text changes exactly when an
\* alert is printed, and then becomes that alert's text without the
\* timestamp; no other step of the loop changes old_text, and once it holds
\* a text it is never empty again while the process runs.
C11_WrittenOnlyOnEmission ==
    [][/\ EvalStep
            => /\ (old_text' # old_text) <=> (AlertCount(out') = 1)
               /\ AlertCount(out') = 1
                    => /\ Len(out') = 1
                       /\ old_text' = [out'[1] EXCEPT !.stamp = 0]
       /\ (pc \in LoopPcs /\ ~EvalStep /\ pc' # "exit")
            => old_text' = old_text
       /\ (pc \in LoopPcs /\ old_text # EmptyText /\ pc' # "exit")
            => old_text' # EmptyText]_vars

\* C11 witness: two ticks in a row printed alerts, and old_text is the text
\* of the later one, without its timestamp.
C11_Witness ==
    /\ Evaluated
    /\ prev_kind = "emitted" /\ last_kind = "emitted"
    /\ Len(out) = 1 /\ IsAlert(out[1]) /\ out[1].stamp \in Times
    /\ old_text = [out[1] EXCEPT !.stamp = 0]
    /\ Sel1 > 0 /\ Sel2 > 0

\* --------------------------------------------------------------------- C12

C13_SingleAttemptPerSlot ==
    [][\A b \in ReadBlocks :
         (pc = b /\ pc' = LoopSucc(b)) => reads' = 1]_vars

\* --------------------------------------------------------------------- C14

\* C14: for a taken pair of two positive prices, a new_text is built exactly
\* when |p1-p2| / ((p1+p2)/2) * 100 exceeds 1.5, and it shows that percentage
\* and |p1-p2|; when the pair is the pair of the tick before with its prices
\* swapped, the decision and the percentage are those of the tick before.
C14_PctSymmetric ==
    [][(EvalStep /\ Sel1' > 0 /\ Sel2' > 0)
         => /\ (last_cand' # EmptyText) <=> PctAbove(Sel1', Sel2')
            /\ last_cand' # EmptyText
                 => /\ last_cand'.pct = RoundDiv(20000 * Abs(Sel1' - Sel2'),
                                                 Sel1' + Sel2')
                    /\ last_cand'.abs_diff = 1000 * Abs(Sel1' - Sel2')
            /\ (last_cand # EmptyText
                  /\ Sel1' = last_cand.lbank /\ Sel2' = last_cand.mexc)
                 => /\ last_cand' # EmptyText
                    /\ last_cand'.pct = last_cand.pct
                    /\ last_cand'.abs_diff = last_cand.abs_diff]_vars

\* C14 witness: after a tick that printed an alert, a tick took a pair of
\* positive prices with the larger one first, above the threshold, and built
\* the text with the percentage of the formula (3.21 for 4.10 and 3.97).
C14_Witness ==
    /\ Evaluated
    /\ prev_kind = "emitted"
    /\ Sel2 > 0 /\ Sel1 > Sel2
    /\ PctAbove(Sel1, Sel2) /\ PctAbove(Sel2, Sel1)
    /\ last_cand # EmptyText
    /\ last_cand.pct = RoundDiv(20000 * (Sel1 - Sel2), Sel1 + Sel2)
    /\ last_cand.pct > 10 * ThresholdTenths

\* --------------------------------------------------------------------- C15

\* C15: when the computation in the branch taken raises (both prices 0, the
\* division by zero), the exception's message is the one line printed, no
\* alert is printed, old_text is unchanged, and the program is at the top of
\* the loop.
C15_ExceptionReported ==
    [][(pc = "evaluate" /\ pc' \notin {"evaluate", "quit1"}
          /\ Sel1' + Sel2' = 0)
         => /\ out' = <<ZeroDivisionText>>
            /\ old_text' = old_text
            /\ last_printed' = last_printed
            /\ pc' = "reset"]_vars

\* C15 witness: with an alert text stored, a tick printed the exception and
\* the program is at the top of the loop with the text still stored.
C15_Witness ==
    /\ Evaluated
    /\ out = <<ZeroDivisionText>>
    /\ old_text # EmptyText /\ old_text = last_printed
    /\ ~interrupted

\* --------------------------------------------------------------------- C16

\* C16: an alert that is printed never has the text of the alert printed
\* before it, whatever ticks lie between the two; and a new_text is printed
\* exactly when it differs from the alert printed last.
C16_NoRepeatedAlert ==
    [][EvalStep
         => /\ AlertCount(out') = 1
                 => [out'[1] EXCEPT !.stamp = 0] # last_printed
            /\ last_cand' # EmptyText
                 => ((AlertCount(out') = 1) <=> (last_cand' # last_printed))
            /\ AlertCount(out') = 0 => last_printed' = last_printed]_vars

\* C16 witness: after a tick that built no text, a tick built the text of
\* the alert printed last and printed nothing.
C16_Witness ==
    /\ Evaluated
    /\ prev_kind = "none" /\ last_kind = "suppressed"
    /\ out = <<>>
    /\ last_cand = last_printed /\ last_cand # EmptyText
    /\ Sel1 > 0 /\ Sel2 > 0

\* --------------------------------------------------------------------- C17

\* C17: the step at the top of the loop body sets all four prices to 0; a
\* read block whose first read raises leaves its price at 0; and the step
\* that runs the if/else changes no price.
C17_NoCarryOver ==
    [][/\ (pc = "reset" /\ pc' = "sell_mexc")
            => \A b \in ReadBlocks : SlotValue(b)' = 0
       /\ \A b \in ReadBlocks :
            (pc = b /\ pc' = LoopSucc(b) /\ caught' /\ reads' = 1)
               => SlotValue(b)' = 0
       /\ EvalStep => \A b \in ReadBlocks : SlotValue(b)' = SlotValue(b)]_vars

\* C17 witness: an earlier tick read two positive prices (they are in the
\* stored alert text), and in this tick all four prices are 0.
C17_Witness ==
    /\ Evaluated
    /\ read_slots = ReadBlocks
    /\ old_text # EmptyText /\ old_text.mexc > 0 /\ old_text.lbank > 0
    /\ \A b \in ReadBlocks : SlotValue(b) = 0

\* --------------------------------------------------------------------- C18

\* C18: old_text is empty when the loop is entered; a tick that finds it
\* empty and takes a pair above 1.5 percent prints the alert and stores its
\* text; and a stored text is never replaced by the empty one while the
\* process runs.
C18_IdleThenArmed ==
    [][/\ (pc = "enter" /\ pc' = "reset") => old_text' = EmptyText
       /\ (EvalStep /\ old_text = EmptyText /\ PctAbove(Sel1', Sel2'))
            => /\ Len(out') = 1 /\ IsAlert(out'[1])
               /\ old_text' # EmptyText
               /\ old_text' = [out'[1] EXCEPT !.stamp = 0]
       /\ (old_text # EmptyText /\ pc' # "exit") => old_text' # EmptyText]_vars

\* C18 witness: with a text stored, two ticks in a row built no text, the
\* later one on a valid pair at or below the threshold, and the text is
\* still stored.
C18_Witness ==
    /\ Evaluated
    /\ old_text # EmptyText
    /\ prev_kind = "none" /\ last_kind = "none"
    /\ Sel1 > 0 /\ Sel2 > 0 /\ PctAtMost(Sel1, Sel2)
    /\ out = <<>>

====
